---- MODULE Spec2Model ----
\* Model of setuptools/command/editable_wheel.py: the editable_wheel command
\* (PEP 660).  One build is finalize_options() followed by run(); run() is
\* split at every call that can raise, so that each failure point of the
\* straight-line code is a state of the model.
EXTENDS Naturals, Sequences, FiniteSets, TLC

\* ---------------------------------------------------------------- bounds
\* Longest configured package_dir[""] path, in components.
MaxPathLen == 2

\* ------------------------------------------------------- optional values
\* Python's None is the empty sequence, a present value v is <<v>>.
None == <<>>

Some(v) == <<v>>

\* ----------------------------------------------------------------- paths
\* A path string is [abs, parts]: abs says whether it starts with a
\* separator, parts are its components.  [abs |-> FALSE, parts |-> <<>>] is
\* the empty string '' as an input and '.' as a result of normpath.
Components == {"Src", "lnk", "..", "."}

P(abs, parts) == [abs |-> abs, parts |-> parts]

EmptyStr == P(FALSE, <<>>)

\* os.curdir
curdir == P(FALSE, <<".">>)

SeqsUpTo(S, n) == UNION {[1..k -> S] : k \in 0..n}

Paths == {P(a, s) : a \in BOOLEAN, s \in SeqsUpTo(Components, MaxPathLen)}

\* The file system the build runs in: the working directory (a real
\* directory) and the symbolic links below it.
Cwd == <<"home", "proj">>

Symlinks == (<<"home", "proj", "lnk">> :> <<"home", "Src">>)

Platforms == {"linux", "win32", "cygwin"}

\* os.path.normpath: drops '.', folds 'x/..' lexically, keeps leading '..'
\* of a relative path and drops '..' at the root of an absolute one.
RECURSIVE NormParts(_, _, _)
NormParts(abs, parts, acc) ==
    IF parts = <<>> THEN acc
    ELSE LET comp == Head(parts)
             rest == Tail(parts)
         IN  IF comp = "." THEN NormParts(abs, rest, acc)
             ELSE IF \/ comp # ".."
                     \/ (~abs /\ acc = <<>>)
                     \/ (acc # <<>> /\ acc[Len(acc)] = "..")
                  THEN NormParts(abs, rest, Append(acc, comp))
             ELSE IF acc # <<>>
                  THEN NormParts(abs, rest, SubSeq(acc, 1, Len(acc) - 1))
             ELSE NormParts(abs, rest, acc)

normpath(p) == P(p.abs, NormParts(p.abs, p.parts, <<>>))

\* os.path.join(a, b)
join(a, b) == IF b.abs THEN b ELSE P(a.abs, a.parts \o b.parts)

\* os.path.abspath
abspath(p) == normpath(join(P(TRUE, Cwd), p))

\* os.path.realpath: absolute, '..' pops the resolved prefix, every prefix
\* that is a symbolic link is replaced by what it points to.
RECURSIVE ResolveParts(_, _)
ResolveParts(parts, acc) ==
    IF parts = <<>> THEN acc
    ELSE LET comp == Head(parts)
             rest == Tail(parts)
         IN  IF comp = "." THEN ResolveParts(rest, acc)
             ELSE IF comp = ".."
                  THEN ResolveParts(rest,
                         IF acc = <<>> THEN acc
                         ELSE SubSeq(acc, 1, Len(acc) - 1))
             ELSE LET new == Append(acc, comp)
                  IN  IF new \in DOMAIN Symlinks
                      THEN ResolveParts(rest, Symlinks[new])
                      ELSE ResolveParts(rest, new)

realpath(p) ==
    P(TRUE, ResolveParts(IF p.abs THEN p.parts ELSE Cwd \o p.parts, <<>>))

Lower(c) == IF c = "Src" THEN "src" ELSE c

\* os.path.normcase: identity on posix, case folding on Windows.
normcase(platform, p) ==
    IF platform = "win32"
    THEN P(p.abs, [i \in DOMAIN p.parts |-> Lower(p.parts[i])])
    ELSE p

_normalize_path(platform, filename) ==
    LET file == IF platform = "cygwin" THEN abspath(filename) ELSE filename
    IN  normcase(platform, realpath(normpath(file)))

\* --------------------------------------------------------------- strings
\* A string is the sequence of its pieces; concatenation is \o.
RECURSIVE Join(_, _)
Join(sep, items) ==
    IF items = <<>> THEN <<>>
    ELSE IF Len(items) = 1 THEN <<items[1]>>
    ELSE <<items[1], sep>> \o Join(sep, Tail(items))

EndsWith(s, suffix) == s # <<>> /\ s[Len(s)] = suffix

\* A piece of a text file: a literal, or the str() of a path.
Lit(s) == [lit |-> s, path |-> None]

PathTok(p) == [lit |-> "", path |-> Some(p)]

\* ------------------------------------------------------------------ state
VARIABLES
    distribution,    \* self.distribution: name, tag, src_root, package_dir,
                     \* namespace_packages
    platform,        \* sys.platform
    options,         \* the options as given: dist_dir, dist_info_dir
    dist_dir_before, \* the output directory's archives before the build
    project_dir,     \* self.project_dir
    dist_dir,        \* self.dist_dir
    dist_info_dir,   \* self.dist_info_dir, with the directory it names
    out_files,       \* the output directory: archive name -> file or None
    tmp,             \* the TemporaryDirectory of line 93, or None
    wheel_path,      \* wheel_path of _create_wheel_file, or None
    installer,       \* the _NamespaceInstaller built at line 76, or None
    pc,              \* position in finalize_options() / run()
    exc,             \* the exception in flight or raised to the caller
    failedAt,        \* the step that raised it
    trace,           \* the steps executed, in order
    ret_create,      \* what _create_wheel_file returned
    ret_run          \* what run() returned

vars == <<distribution, platform, options, dist_dir_before, project_dir,
          dist_dir, dist_info_dir, out_files, tmp, wheel_path, installer,
          pc, exc, failedAt, trace, ret_create, ret_run>>

\* ----------------------------------------------------------------- inputs
Names == {"foo", "bar"}

Tags == {<<"py3", "none", "any">>, <<"cp39", "cp39", "linux_x86_64">>}

SrcRoots == {None, Some(P(TRUE, <<"home", "Src">>))}

PackageDirs ==
    {None, Some(<<>>), Some("pkg" :> P(FALSE, <<"Src">>))}
        \cup {Some("" :> p) : p \in Paths}

NamespacePackages == {{}, {"ns", "ns.sub"}}

DistDirOptions == {None, Some(P(FALSE, <<"out">>))}

\* A dist-info directory: its name (stem, suffix) and the files in it.
DistInfoDir(suffix, files) ==
    [name |-> <<"given-1.0", suffix>>, files |-> files]

DistInfoDirOptions ==
    {None,
     Some(DistInfoDir(".dist-info", {"METADATA"})),
     Some(DistInfoDir(".egg-info", {"METADATA"})),
     Some(DistInfoDir(".dist-info", {"RECORD"}))}

\* A stale archive left by an earlier build.
OldFile == [kind |-> "old", entries |-> {}]

\* ------------------------------------------------------------- operations
\* Python's `a or b` on an optional path: None and '' are falsy.
Or(a, b) == IF a = None \/ a[1] = EmptyStr THEN b ELSE a[1]

\* dict.get(key) of `package_dir or {}`
Get(package_dir, key) ==
    LET d == IF package_dir = None THEN <<>> ELSE package_dir[1]
    IN  IF key \in DOMAIN d THEN Some(d[key]) ELSE None

build_tag == <<"0", ".editable">>

\* Mutant: the archive name without its build tag.
archive_name_no_build_tag(editable_name, tag) ==
    <<editable_name, "-">> \o tag \o <<".whl">>

archive_name(editable_name, tag) ==
    <<editable_name, "-">> \o build_tag \o <<"-">> \o tag \o <<".whl">>

ArchiveNames ==
    {archive_name(n, Join("-", t)) : n \in Names, t \in Tags}

\* Mutant: the redirect target ignores the package_dir mapping.
target_project_dir == _normalize_path(platform, project_dir[1])

target ==
    _normalize_path(platform,
                    Or(Get(distribution.package_dir, ""), project_dir[1]))

\* dist_info.run() into output_dir: the generated directory.
generate_metadata(name) ==
    [name |-> <<name, ".dist-info">>, files |-> {"METADATA"}]

\* Mutant: only the directory's suffix is checked.
ValidDistInfo_suffix_only(d) == EndsWith(d.name, ".dist-info")

\* The two assertions of _ensure_dist_info.
ValidDistInfo(d) ==
    /\ EndsWith(d.name, ".dist-info")
    /\ "METADATA" \in d.files

\* bdist_wheel.write_wheelfile(dist_info_dir)
write_wheelfile_in(d) == [d EXCEPT !.files = @ \cup {"WHEEL"}]

\* An entry of a directory or of an archive.
Entry(name, files, text, pkgs) ==
    [name |-> name, files |-> files, text |-> text, pkgs |-> pkgs]

\* Mutant: the installer searches the project directory as configured,
\* not the resolved target.
_NamespaceInstaller_cwd(dist, installation_dir, editable_name, src_root) ==
    [namespace_packages |-> dist.namespace_packages,
     src_root |-> project_dir[1],
     installation_dir |-> installation_dir,
     editable_name |-> editable_name]

_NamespaceInstaller(dist, installation_dir, editable_name, src_root) ==
    [namespace_packages |-> dist.namespace_packages,
     src_root |-> src_root,
     installation_dir |-> installation_dir,
     editable_name |-> editable_name]

_get_target(self) ==
    [dir |-> self.installation_dir, name |-> <<self.editable_name>>]

\* repr(str(src_root)): the path as a quoted string literal
_get_root(self) == <<Lit("'"), PathTok(self.src_root), Lit("'")>>

\* namespaces.Installer.install_namespaces: one shim file beside the
\* installation target, naming the declared packages and the search root.
install_namespaces(self) ==
    [dir |-> _get_target(self).dir,
     entry |-> Entry(_get_target(self).name \o <<"-nspkg.pth">>, {},
                     _get_root(self), self.namespace_packages)]

pth_entry(dist_id) ==
    Entry(<<"__editable__.", dist_id, ".pth">>, {},
          <<PathTok(target), Lit("\n")>>, {})

dist_info_entry(d) == Entry(d.name, d.files, <<>>, {})

\* ------------------------------------------------------------ control flow
Log(steps) == trace' = trace \o steps

Goto(next) == pc' = next /\ UNCHANGED <<exc, failedAt>>

\* An exception leaves run(): through the with block's exit when the
\* staging directory exists, straight to the caller otherwise.
Raise(step, e) ==
    /\ exc' = Some(e)
    /\ failedAt' = step
    /\ pc' = IF tmp # None THEN "cleanup" ELSE "raised"

inputs == <<distribution, platform, options, dist_dir_before>>

Init ==
    /\ distribution \in [name : Names, tag : Tags, src_root : SrcRoots,
                         package_dir : PackageDirs,
                         namespace_packages : NamespacePackages]
    /\ platform \in Platforms
    /\ options \in [dist_dir : DistDirOptions,
                    dist_info_dir : DistInfoDirOptions]
    /\ \E own \in {None, Some(OldFile)} :
         dist_dir_before =
           [n \in ArchiveNames |->
              IF n = archive_name(distribution.name,
                                  Join("-", distribution.tag))
              THEN own ELSE Some(OldFile)]
    /\ out_files = dist_dir_before
    /\ project_dir = None
    /\ dist_dir = options.dist_dir
    /\ dist_info_dir = options.dist_info_dir
    /\ tmp = None
    /\ wheel_path = None
    /\ installer = None
    /\ pc = "init"
    /\ exc = None
    /\ failedAt = ""
    /\ trace = <<>>
    /\ ret_create = None
    /\ ret_run = None

finalize_options ==
    /\ pc = "init"
    /\ project_dir' = Some(Or(distribution.src_root, curdir))
    /\ dist_dir' = Some(Or(dist_dir,
                           join(project_dir'[1], P(FALSE, <<"dist">>))))
    /\ \/ Goto("run")
       \/ Raise("finalize_options", "OSError")
    /\ UNCHANGED <<inputs, dist_info_dir, out_files, tmp, wheel_path,
                   installer, trace, ret_create, ret_run>>

\* Mutant: the old archive is removed at the start of run().
_ensure_dist_info_unlink_first ==
    /\ pc = "run"
    /\ out_files' =
         [out_files EXCEPT
            ![archive_name(distribution.name,
                           Join("-", distribution.tag))] = None]
    /\ IF dist_info_dir = None
       THEN /\ Log(<<"_ensure_dist_info", "dist_info.run">>)
            /\ \/ /\ dist_info_dir' =
                       Some([name |-> <<distribution.name, ".dist-info">>,
                             files |-> {"METADATA"}])
                  /\ Goto("write_wheelfile")
               \/ /\ Raise("dist_info.run", "Error")
                  /\ UNCHANGED dist_info_dir
       ELSE /\ Log(<<"_ensure_dist_info">>)
            /\ UNCHANGED dist_info_dir
            /\ IF /\ EndsWith(dist_info_dir[1].name, ".dist-info")
                  /\ "METADATA" \in dist_info_dir[1].files
               THEN Goto("write_wheelfile")
               ELSE Raise("_ensure_dist_info", "AssertionError")
    /\ UNCHANGED <<inputs, project_dir, dist_dir, tmp, wheel_path,
                   installer, ret_create, ret_run>>

_ensure_dist_info ==
    /\ pc = "run"
    /\ IF dist_info_dir = None
       THEN /\ Log(<<"_ensure_dist_info", "dist_info.run">>)
            /\ \/ /\ dist_info_dir' =
                       Some(generate_metadata(distribution.name))
                  /\ Goto("write_wheelfile")
               \/ /\ Raise("dist_info.run", "Error")
                  /\ UNCHANGED dist_info_dir
       ELSE /\ Log(<<"_ensure_dist_info">>)
            /\ UNCHANGED dist_info_dir
            /\ IF ValidDistInfo(dist_info_dir[1])
               THEN Goto("write_wheelfile")
               ELSE Raise("_ensure_dist_info", "AssertionError")
    /\ UNCHANGED <<inputs, project_dir, dist_dir, out_files, tmp,
                   wheel_path, installer, ret_create, ret_run>>

write_wheelfile ==
    /\ pc = "write_wheelfile"
    /\ Log(<<"write_wheelfile">>)
    /\ \/ /\ dist_info_dir' = Some(write_wheelfile_in(dist_info_dir[1]))
          /\ Goto("build_ext")
       \/ /\ Raise("write_wheelfile", "Error")
          /\ UNCHANGED dist_info_dir
    /\ UNCHANGED <<inputs, project_dir, dist_dir, out_files, tmp,
                   wheel_path, installer, ret_create, ret_run>>

\* Mutant: a failed extension build is swallowed and the build goes on.
build_ext_suppressed ==
    /\ pc = "build_ext"
    /\ Log(<<"build_ext">>)
    /\ \/ Goto("archive_name")
       \/ /\ exc' = Some("Error")
          /\ failedAt' = "build_ext"
          /\ pc' = "archive_name"
    /\ UNCHANGED <<inputs, project_dir, dist_dir, dist_info_dir, out_files,
                   tmp, wheel_path, installer, ret_create, ret_run>>

build_ext ==
    /\ pc = "build_ext"
    /\ Log(<<"build_ext">>)
    /\ \/ Goto("archive_name")
       \/ Raise("build_ext", "Error")
    /\ UNCHANGED <<inputs, project_dir, dist_dir, dist_info_dir, out_files,
                   tmp, wheel_path, installer, ret_create, ret_run>>

\* Lines 82-87: the archive's name and path.
compute_wheel_path ==
    /\ pc = "archive_name"
    /\ Log(<<"archive_name">>)
    /\ \/ /\ wheel_path' =
               Some([dir |-> dist_dir[1],
                     name |-> archive_name(distribution.name,
                                           Join("-", distribution.tag))])
          /\ Goto("unlink")
       \/ /\ Raise("archive_name", "Error")
          /\ UNCHANGED wheel_path
    /\ UNCHANGED <<inputs, project_dir, dist_dir, dist_info_dir, out_files,
                   tmp, installer, ret_create, ret_run>>

\* Mutant: an existing archive is left where it is.
unlink_existing_never ==
    /\ pc = "unlink"
    /\ Goto("mkdtemp")
    /\ UNCHANGED <<inputs, project_dir, dist_dir, dist_info_dir, out_files,
                   tmp, wheel_path, installer, trace, ret_create, ret_run>>

\* Lines 88-89: if wheel_path.exists(): wheel_path.unlink()
unlink_existing ==
    /\ pc = "unlink"
    /\ IF out_files[wheel_path[1].name] # None
       THEN /\ Log(<<"unlink">>)
            /\ \/ /\ out_files' =
                       [out_files EXCEPT ![wheel_path[1].name] = None]
                  /\ Goto("mkdtemp")
               \/ /\ Raise("unlink", "OSError")
                  /\ UNCHANGED out_files
       ELSE /\ Goto("mkdtemp")
            /\ UNCHANGED <<out_files, trace>>
    /\ UNCHANGED <<inputs, project_dir, dist_dir, dist_info_dir, tmp,
                   wheel_path, installer, ret_create, ret_run>>

\* Line 93: entering `with TemporaryDirectory(suffix=archive_name) as tmp`
TemporaryDirectory_enter ==
    /\ pc = "mkdtemp"
    /\ Log(<<"mkdtemp">>)
    /\ \/ /\ tmp' = Some([dir |-> <<"tmp">> \o wheel_path[1].name,
                          entries |-> {}])
          /\ Goto("copytree")
       \/ /\ Raise("mkdtemp", "OSError")
          /\ UNCHANGED tmp
    /\ UNCHANGED <<inputs, project_dir, dist_dir, dist_info_dir, out_files,
                   wheel_path, installer, ret_create, ret_run>>

AddEntry(dir, e) == [dir EXCEPT !.entries = @ \cup {e}]

\* Lines 94-95: shutil.copytree(self.dist_info_dir, tmp_dist_info); a
\* failed copy may leave the files copied so far.
copytree ==
    /\ pc = "copytree"
    /\ Log(<<"copytree">>)
    /\ \/ /\ tmp' = Some(AddEntry(tmp[1], dist_info_entry(dist_info_dir[1])))
          /\ Goto("install_namespaces")
       \/ /\ \E copied \in SUBSET dist_info_dir[1].files :
               tmp' = Some(AddEntry(tmp[1],
                        Entry(dist_info_dir[1].name, copied, <<>>, {})))
          /\ Raise("copytree", "OSError")
    /\ UNCHANGED <<inputs, project_dir, dist_dir, dist_info_dir, out_files,
                   wheel_path, installer, ret_create, ret_run>>

\* Line 96 and lines 70-77.
_install_namespaces ==
    /\ pc = "install_namespaces"
    /\ IF distribution.namespace_packages = {}
       THEN /\ Goto("populate_wheel")
            /\ UNCHANGED <<installer, tmp, trace>>
       ELSE /\ Log(<<"install_namespaces">>)
            /\ installer' =
                 Some(_NamespaceInstaller(distribution, tmp[1].dir,
                                          distribution.name, target))
            /\ \/ /\ install_namespaces(installer'[1]).dir = tmp[1].dir
                  /\ tmp' = Some(AddEntry(tmp[1],
                               install_namespaces(installer'[1]).entry))
                  /\ Goto("populate_wheel")
               \/ /\ Raise("install_namespaces", "OSError")
                  /\ UNCHANGED tmp
    /\ UNCHANGED <<inputs, project_dir, dist_dir, dist_info_dir, out_files,
                   wheel_path, ret_create, ret_run>>

\* Line 97 and lines 103-105.
_populate_wheel ==
    /\ pc = "populate_wheel"
    /\ Log(<<"_populate_wheel">>)
    /\ \/ /\ tmp' = Some(AddEntry(tmp[1], pth_entry(distribution.name)))
          /\ Goto("write_files")
       \/ /\ Raise("_populate_wheel", "OSError")
          /\ UNCHANGED tmp
    /\ UNCHANGED <<inputs, project_dir, dist_dir, dist_info_dir, out_files,
                   wheel_path, installer, ret_create, ret_run>>

\* Lines 98-99: WheelFile(wheel_path, "w") opens the final path itself
\* for writing, write_files(tmp) adds the staging entries, closing adds
\* RECORD.  A failure after the open leaves what was written so far.
write_files ==
    /\ pc = "write_files"
    /\ Log(<<"write_files">>)
    /\ \/ /\ out_files' =
               [out_files EXCEPT ![wheel_path[1].name] =
                  Some([kind |-> "wheel", entries |-> tmp[1].entries])]
          /\ Goto("cleanup")
       \/ /\ UNCHANGED out_files
          /\ Raise("write_files", "OSError")
       \/ /\ \E written \in (SUBSET tmp[1].entries) \ {tmp[1].entries} :
               out_files' =
                 [out_files EXCEPT ![wheel_path[1].name] =
                    Some([kind |-> "partial", entries |-> written])]
          /\ Raise("write_files", "Error")
    /\ UNCHANGED <<inputs, project_dir, dist_dir, dist_info_dir, tmp,
                   wheel_path, installer, ret_create, ret_run>>

\* Mutant: the staging directory is removed on the normal path only.
TemporaryDirectory_exit_on_success ==
    /\ pc = "cleanup"
    /\ Log(<<"cleanup">>)
    /\ tmp' = IF exc = None THEN None ELSE tmp
    /\ pc' = IF exc # None THEN "raised" ELSE "return"
    /\ UNCHANGED <<inputs, project_dir, dist_dir, dist_info_dir, out_files,
                   wheel_path, installer, exc, failedAt, ret_create,
                   ret_run>>

\* Leaving the with block of line 93, normally or by an exception.
TemporaryDirectory_exit ==
    /\ pc = "cleanup"
    /\ Log(<<"cleanup">>)
    /\ tmp' = None
    /\ pc' = IF exc # None THEN "raised" ELSE "return"
    /\ UNCHANGED <<inputs, project_dir, dist_dir, dist_info_dir, out_files,
                   wheel_path, installer, exc, failedAt, ret_create,
                   ret_run>>

\* Mutant: _create_wheel_file ends without returning the path.
run_return_nothing ==
    /\ pc = "return"
    /\ ret_create' = None
    /\ ret_run' = None
    /\ pc' = "done"
    /\ UNCHANGED <<inputs, project_dir, dist_dir, dist_info_dir, out_files,
                   tmp, wheel_path, installer, exc, failedAt, trace>>

\* Line 101 returns wheel_path to run(); line 57 drops it and run() ends
\* without a return statement.
run_return ==
    /\ pc = "return"
    /\ ret_create' = wheel_path
    /\ ret_run' = None
    /\ pc' = "done"
    /\ UNCHANGED <<inputs, project_dir, dist_dir, dist_info_dir, out_files,
                   tmp, wheel_path, installer, exc, failedAt, trace>>

Next ==
    \/ finalize_options
    \/ _ensure_dist_info
    \/ write_wheelfile
    \/ build_ext
    \/ compute_wheel_path
    \/ unlink_existing
    \/ TemporaryDirectory_enter
    \/ copytree
    \/ _install_namespaces
    \/ _populate_wheel
    \/ write_files
    \/ TemporaryDirectory_exit
    \/ run_return

Spec == Init /\ [][Next]_vars

\* ----------------------------------------------------------------- claims
\* The archive this build writes, stated from the inputs alone.
OwnArchive ==
    <<distribution.name, "-", "0", ".editable", "-",
      distribution.tag[1], "-", distribution.tag[2], "-",
      distribution.tag[3], ".whl">>

Finished == pc \in {"done", "raised"}

Digits == {"0", "1", "2", "3", "4", "5", "6", "7", "8", "9"}

StagingSteps ==
    {"mkdtemp", "copytree", "install_namespaces", "_populate_wheel",
     "write_files"}

\* C1: whenever a build has failed, whatever step raised, no half-written
\* archive exists at the final archive path.
C1_NoPartialArchiveOnFailure ==
    pc = "raised" =>
        \/ out_files[OwnArchive] = None
        \/ out_files[OwnArchive][1].kind # "partial"

\* C2: when control is back with the caller, by return or by exception,
\* the staging directory of the build no longer exists.
C2_NoStagingLeft == Finished => tmp = None

C2_Witness ==
    /\ pc = "raised"
    /\ failedAt = "write_files"
    /\ \E i \in DOMAIN trace : trace[i] = "mkdtemp"
    /\ tmp = None

\* C3: a supplied dist-info directory without the '.dist-info' suffix or
\* without METADATA ends the build with the assertion's error in
\* _ensure_dist_info: no later step runs and the output directory is as
\* it was.
C3_InvalidDistInfoRejected ==
    LET given == options.dist_info_dir
        invalid == \/ given[1].name[Len(given[1].name)] # ".dist-info"
                   \/ "METADATA" \notin given[1].files
    IN  (given # None /\ invalid /\ trace # <<>>) =>
            /\ pc = "raised"
            /\ exc = Some("AssertionError")
            /\ failedAt = "_ensure_dist_info"
            /\ trace = <<"_ensure_dist_info">>
            /\ out_files = dist_dir_before
            /\ dist_info_dir = given
            /\ tmp = None
            /\ wheel_path = None

C3_Witness ==
    /\ options.dist_info_dir # None
    /\ "METADATA" \notin options.dist_info_dir[1].files
    /\ pc = "raised"
    /\ exc = Some("AssertionError")

\* C4: when a file occupies the archive path at the start, it is gone
\* from the moment staging begins until serialization, and after a
\* successful build the file there is the new archive, made of the
\* staging entries only.
C4_OldArchiveReplaced ==
    dist_dir_before[OwnArchive] # None =>
        /\ pc \in {"mkdtemp", "copytree", "install_namespaces",
                   "populate_wheel", "write_files"}
             => out_files[OwnArchive] = None
        /\ pc = "done" =>
             /\ out_files[OwnArchive] # None
             /\ out_files[OwnArchive][1].kind = "wheel"
             /\ {e.name : e \in out_files[OwnArchive][1].entries}
                  \subseteq {dist_info_dir[1].name,
                             <<distribution.name, "-nspkg.pth">>,
                             <<"__editable__.", distribution.name, ".pth">>}

C4_Witness ==
    /\ pc = "done"
    /\ dist_dir_before[OwnArchive] # None
    /\ out_files[OwnArchive][1].kind = "wheel"

\* A path in the form normalization must produce on this platform and
\* file system.
Normalized(p) ==
    /\ p.abs
    /\ \A i \in DOMAIN p.parts :
         /\ p.parts[i] \notin {".", ".."}
         /\ SubSeq(p.parts, 1, i) \notin DOMAIN Symlinks
         /\ platform = "win32" => p.parts[i] # "Src"

\* C5: the staging directory handed to serialization holds exactly one
\* file __editable__.{name}.pth; its content is the normalized target
\* path and a newline, the target being package_dir[""] when that entry
\* is present and non-empty and the project directory otherwise.
C5_RedirectFile ==
    pc = "write_files" =>
        LET pd == distribution.package_dir
            root == IF pd # None /\ "" \in DOMAIN pd[1]
                       /\ pd[1][""] # EmptyStr
                    THEN pd[1][""]
                    ELSE project_dir[1]
            pths == {e \in tmp[1].entries :
                       e.name = <<"__editable__.", distribution.name,
                                  ".pth">>}
        IN  /\ Cardinality(pths) = 1
            /\ \A e \in pths :
                 /\ e.text = <<PathTok(_normalize_path(platform, root)),
                               Lit("\n")>>
                 /\ Normalized(e.text[1].path[1])

C5_Witness ==
    /\ pc = "write_files"
    /\ distribution.package_dir = Some("" :> P(FALSE, <<"lnk", "Src">>))
    /\ distribution.src_root = None
    /\ \E e \in tmp[1].entries :
         e.text = <<PathTok(P(TRUE, <<"home", "Src", "Src">>)), Lit("\n")>>

\* C6: the archive path is {dist_dir}/{name}-0.editable-{tag}.whl, the
\* tag being the hyphen-join of the tag components, and the build tag
\* starts with a digit.
C6_ArchivePath ==
    wheel_path # None =>
        /\ wheel_path[1] = [dir |-> dist_dir[1], name |-> OwnArchive]
        /\ SubSeq(wheel_path[1].name, 3, 4) = <<"0", ".editable">>
        /\ wheel_path[1].name[3] \in Digits

C6_Witness ==
    /\ wheel_path # None
    /\ distribution.name = "bar"
    /\ distribution.tag = <<"cp39", "cp39", "linux_x86_64">>
    /\ options.dist_dir = None

\* C7 as stated: after a successful build, the value run() returned to
\* its caller is the final archive path.
C7_RunReturnsArchivePath == pc = "done" => ret_run = wheel_path

\* C7 amended: after a successful build, _create_wheel_file has returned
\* the final archive path to run(), and run() has returned None.
C7_CreateReturnsArchivePath ==
    pc = "done" =>
        /\ ret_create = Some([dir |-> dist_dir[1], name |-> OwnArchive])
        /\ ret_run = None

C7_Witness == pc = "done" /\ ret_create # None /\ ret_run = None

\* C8: the namespace installer is built and run exactly when namespace
\* packages are declared, after the dist-info copy and before the
\* redirect file; it installs into the staging directory under the
\* distribution's name and searches the path the redirect file names.
\* Without namespace packages the staging directory holds the dist-info
\* copy and the redirect file only.
C8_NamespaceInstaller ==
    LET declared == distribution.namespace_packages # {}
        pth == <<"__editable__.", distribution.name, ".pth">>
        shim == <<distribution.name, "-nspkg.pth">>
        names == {e.name : e \in tmp[1].entries}
    IN  /\ installer # None => declared
        /\ (declared /\ pc \in {"populate_wheel", "write_files"})
             => installer # None
        /\ installer # None =>
             /\ \E i \in 2..Len(trace) :
                  /\ trace[i] = "install_namespaces"
                  /\ trace[i - 1] = "copytree"
                  /\ \A j \in 1..i : trace[j] # "_populate_wheel"
             /\ installer[1].installation_dir = <<"tmp">> \o OwnArchive
             /\ tmp # None => installer[1].installation_dir = tmp[1].dir
             /\ installer[1].editable_name = distribution.name
             /\ installer[1].namespace_packages
                  = distribution.namespace_packages
        /\ pc = "write_files" =>
             /\ declared =>
                  /\ names = {dist_info_dir[1].name, shim, pth}
                  /\ \A e \in tmp[1].entries :
                       e.name = pth =>
                         e.text[1] = PathTok(installer[1].src_root)
             /\ ~declared => names = {dist_info_dir[1].name, pth}

C8_Witness ==
    /\ pc = "write_files"
    /\ installer # None
    /\ \E e \in tmp[1].entries : e.pkgs = {"ns", "ns.sub"}

\* C9: the steps run in one fixed order, each at most once, skipping
\* only a step whose condition is off; a failure reaches the caller, and
\* after it nothing runs but the deletion of an existing staging
\* directory; metadata is generated only when no dist-info was supplied.
C9_LinearOrder ==
    LET Order == <<"_ensure_dist_info", "dist_info.run", "write_wheelfile",
                   "build_ext", "archive_name", "unlink", "mkdtemp",
                   "copytree", "install_namespaces", "_populate_wheel",
                   "write_files", "cleanup">>
        Idx(s) == CHOOSE k \in DOMAIN Order : Order[k] = s
        Skippable(s) ==
            \/ s = "dist_info.run" /\ options.dist_info_dir # None
            \/ s = "unlink" /\ dist_dir_before[OwnArchive] = None
            \/ s = "install_namespaces"
                 /\ distribution.namespace_packages = {}
        n == Len(trace)
        cleaned == n > 0 /\ trace[n] = "cleanup"
        body == IF cleaned THEN SubSeq(trace, 1, n - 1) ELSE trace
        last == body[Len(body)]
        staged == \E i \in DOMAIN body : body[i] = "copytree"
        failed == exc # None /\ failedAt # "finalize_options"
    IN  /\ \A i \in DOMAIN trace : \E k \in DOMAIN Order : Order[k] = trace[i]
        /\ trace # <<>> => trace[1] = "_ensure_dist_info"
        /\ \A i \in DOMAIN body : body[i] # "cleanup"
        /\ \A i \in 1..(Len(body) - 1) :
             /\ Idx(body[i]) < Idx(body[i + 1])
             /\ \A k \in (Idx(body[i]) + 1)..(Idx(body[i + 1]) - 1) :
                  Skippable(Order[k])
        /\ cleaned => staged /\ (failed \/ last = "write_files")
        /\ failed =>
             /\ pc \in {"cleanup", "raised"}
             /\ failedAt = last
             /\ pc = "cleanup" => tmp # None /\ ~cleaned
             /\ pc = "raised" => (cleaned <=> staged)
        /\ pc = "raised" => exc # None
        /\ pc = "done" => exc = None /\ cleaned /\ last = "write_files"
        /\ (\E i \in DOMAIN trace : trace[i] = "dist_info.run")
             => options.dist_info_dir = None

C9_Witness ==
    /\ pc = "raised"
    /\ failedAt = "copytree"
    /\ trace = <<"_ensure_dist_info", "dist_info.run", "write_wheelfile",
                 "build_ext", "archive_name", "unlink", "mkdtemp",
                 "copytree", "cleanup">>

\* C10: a build that fails in dist-info resolution or validation, in
\* wheel-metadata writing or in extension compilation leaves the output
\* directory as it was; an old archive is missing after a failed build
\* only when a step after its removal failed.
C10_EarlyFailureKeepsOldArchive ==
    /\ (pc = "raised" /\ failedAt \in {"_ensure_dist_info", "dist_info.run",
                                       "write_wheelfile", "build_ext"})
         => out_files = dist_dir_before
    /\ (pc = "raised" /\ dist_dir_before[OwnArchive] # None
          /\ out_files[OwnArchive] = None)
         => failedAt \in StagingSteps

C10_Witness ==
    /\ pc = "raised"
    /\ failedAt = "build_ext"
    /\ dist_dir_before[OwnArchive] # None
    /\ out_files[OwnArchive] = Some(OldFile)

====
